---- MODULE Spec2Model ----
(***************************************************************************)
(* A model of src/src/json.rs: a recursive-descent JSON parser assembled   *)
(* from nom combinators.  A text is a sequence of one-character strings.   *)
(* Every rule is an operator from an input slice to a result record that   *)
(* follows nom's IResult<&str, O>, whose error type is the default one     *)
(* (an input slice and an error kind):                                     *)
(*   ok      - Ok((input, val)) when TRUE, Err(..) when FALSE              *)
(*   failure - Err::Failure (unrecoverable) rather than Err::Error         *)
(*   input   - the remaining slice (Ok) or the slice the error points at   *)
(*   val     - the output (Ok only)                                        *)
(*   code    - the ErrorKind (Err only)                                    *)
(*   context - the context names the error value carries (Err only)        *)
(*   calls   - history: the calls of parse, parse_array and parse_object   *)
(*             made while the rule ran, as a sequence of trees; a node     *)
(*             [rule, len, sub] holds the rule called, the length of the   *)
(*             slice it received and the calls made inside it              *)
(***************************************************************************)
EXTENDS Integers, Sequences, FiniteSets, TLC

VARIABLES shape, parts, input, called, result

vars == <<shape, parts, input, called, result>>

----------------------------------------------------------------------------
(* Texts *)

Blank == {" ", "\t", "\n", "\r"}

Digit == {"0", "1", "2", "3", "4", "5", "6", "7", "8", "9"}

Drop(s, n) == SubSeq(s, n + 1, Len(s))

Take(s, n) == SubSeq(s, 1, n)

Reverse(s) == [k \in 1..Len(s) |-> s[Len(s) + 1 - k]]

RECURSIVE Concat(_)
Concat(ss) == IF ss = <<>> THEN <<>> ELSE Head(ss) \o Concat(Tail(ss))

(* the length of the longest prefix of s made of characters of set *)
RECURSIVE PrefixIn(_, _)
PrefixIn(s, set) ==
    IF s # <<>> /\ Head(s) \in set THEN 1 + PrefixIn(Tail(s), set) ELSE 0

(* the length of the longest prefix of s made of characters outside set *)
RECURSIVE PrefixNotIn(_, _)
PrefixNotIn(s, set) ==
    IF s # <<>> /\ Head(s) \notin set THEN 1 + PrefixNotIn(Tail(s), set) ELSE 0

----------------------------------------------------------------------------
(* Results *)

NoValue == <<>>

Ok(i, o, calls) ==
    [ok |-> TRUE, failure |-> FALSE, input |-> i, val |-> o,
     code |-> "", context |-> <<>>, calls |-> calls]

(* Err::Error(Error::new(i, code)): the default error type holds the slice
   and the kind, and no context *)
Error(i, code, calls) ==
    [ok |-> FALSE, failure |-> FALSE, input |-> i, val |-> NoValue,
     code |-> code, context |-> <<>>, calls |-> calls]

Failure(i, code, calls) ==
    [ok |-> FALSE, failure |-> TRUE, input |-> i, val |-> NoValue,
     code |-> code, context |-> <<>>, calls |-> calls]

(* r as the result of a call of rule on i: the calls made inside it become
   the children of the call's node *)
Called(rule, i, r) ==
    [r EXCEPT !.calls = <<[rule |-> rule, len |-> Len(i), sub |-> r.calls]>>]

(* r with the calls made before it put in front of its own *)
After(before, r) == [r EXCEPT !.calls = before \o r.calls]

----------------------------------------------------------------------------
(* JsonValue *)

Number(x) == [kind |-> "Number", v |-> x]

Str(s) == [kind |-> "Str", v |-> s]

Bool(b) == [kind |-> "Bool", v |-> b]

Null == [kind |-> "Null", v |-> <<>>]

Object(m) == [kind |-> "Object", v |-> m]

Array(a) == [kind |-> "Array", v |-> a]

EmptyMap == [k \in {} |-> Null]

----------------------------------------------------------------------------
(* nom combinators, as json.rs uses them *)

tag(t, i) ==
    IF Len(i) >= Len(t) /\ Take(i, Len(t)) = t
    THEN Ok(Drop(i, Len(t)), t, <<>>)
    ELSE Error(i, "Tag", <<>>)

(* take_till_quote not stopping at a quote that follows a backslash *)
take_till_quote_escaped(i) ==
    LET stop(k) == \/ k = Len(i)
                   \/ i[k + 1] = "\"" /\ ~(k >= 1 /\ i[k] = "\\")
        n == CHOOSE k \in 0..Len(i) : stop(k) /\ \A j \in 0..(k - 1) : ~stop(j)
    IN  Ok(Drop(i, n), Take(i, n), <<>>)

take_till_quote(i) ==
    LET n == PrefixNotIn(i, {"\""}) IN Ok(Drop(i, n), Take(i, n), <<>>)

multispace0(i) ==
    LET n == PrefixIn(i, Blank) IN Ok(Drop(i, n), Take(i, n), <<>>)

value(o, r) == IF r.ok THEN [r EXCEPT !.val = o] ELSE r

(* ContextError::add_context of the default error type returns the error
   it is given: the context name is not recorded *)
add_context(i, ctx, other) == other

context(ctx, i, r) == IF r.ok \/ r.failure THEN r ELSE add_context(i, ctx, r)

(* ParseError::or of the default error type keeps the later error *)
or(self, other) == other

(* ParseError::append of the default error type returns the error it is
   given: ErrorKind::Alt is not recorded *)
append(i, kind, other) == other

(* alt over the alternatives named in order, rs[a] being the result of
   alternative a on i: the first result that is not Err::Error, else the
   errors of all of them combined *)
RECURSIVE alt_from(_, _, _, _, _)
alt_from(k, order, i, rs, err) ==
    IF k > Len(order) THEN append(i, "Alt", err)
    ELSE LET r == After(err.calls, rs[order[k]]) IN
         IF r.ok \/ r.failure THEN r
         ELSE alt_from(k + 1, order, i, rs, or(err, r))

alt(order, i, rs) ==
    LET r == rs[order[1]] IN
    IF r.ok \/ r.failure THEN r ELSE alt_from(2, order, i, rs, r)

----------------------------------------------------------------------------
(* nom::number::complete::double: the text recognize_float accepts,
     an optional sign; then either digits with an optional dot and optional
     digits after it, or a dot and digits; then optionally e or E, an
     optional sign and digits,
   where a missing exponent digit after e or E is an Err::Failure (cut), and
   the f64 it denotes.  An f64 is modelled by the decimal it is nearest to,
   <<m, e>> standing for m * 10^e with m not a multiple of 10, so that two
   texts get the same model value iff they denote the same number. *)

DigitValue(c) ==
    CASE c = "0" -> 0 [] c = "1" -> 1 [] c = "2" -> 2 [] c = "3" -> 3
      [] c = "4" -> 4 [] c = "5" -> 5 [] c = "6" -> 6 [] c = "7" -> 7
      [] c = "8" -> 8 [] c = "9" -> 9

RECURSIVE ToNat(_)
ToNat(ds) ==
    IF ds = <<>> THEN 0
    ELSE 10 * ToNat(Take(ds, Len(ds) - 1)) + DigitValue(ds[Len(ds)])

RECURSIVE Normal(_, _)
Normal(m, e) ==
    IF m = 0 THEN <<0, 0>>
    ELSE IF m % 10 = 0 THEN Normal(m \div 10, e + 1)
    ELSE <<m, e>>

(* float_parts taking a text without any digit for a float text *)
float_parts_digit0(i) ==
    LET sign  == IF i # <<>> /\ Head(i) \in {"+", "-"} THEN 1 ELSE 0
        a     == Drop(i, sign)
        int   == PrefixIn(a, Digit)
        b     == Drop(a, int)
        dot   == b # <<>> /\ Head(b) = "."
        fdig  == IF dot THEN PrefixIn(Tail(b), Digit) ELSE 0
        frac  == IF dot /\ (int > 0 \/ fdig > 0) THEN 1 + fdig ELSE 0
        c     == Drop(b, frac)
        hasE  == c # <<>> /\ Head(c) \in {"e", "E"}
        esign == IF hasE /\ Len(c) > 1 /\ c[2] \in {"+", "-"} THEN 1 ELSE 0
        edig  == IF hasE THEN PrefixIn(Drop(c, 1 + esign), Digit) ELSE 0
    IN  [sign |-> sign, int |-> int, frac |-> frac,
         exp  |-> IF hasE THEN 1 + esign + edig ELSE 0,
         esign |-> esign,
         bad  |-> FALSE,
         cut  |-> hasE /\ edig = 0]

(* the parts of a float text at the head of i: the lengths of the sign,
   integer digits, fraction (with its dot) and exponent (with its e and
   sign); bad: no float text here; cut: e or E without a digit after it *)
float_parts(i) ==
    LET sign  == IF i # <<>> /\ Head(i) \in {"+", "-"} THEN 1 ELSE 0
        a     == Drop(i, sign)
        int   == PrefixIn(a, Digit)
        b     == Drop(a, int)
        dot   == b # <<>> /\ Head(b) = "."
        fdig  == IF dot THEN PrefixIn(Tail(b), Digit) ELSE 0
        frac  == IF dot /\ (int > 0 \/ fdig > 0) THEN 1 + fdig ELSE 0
        c     == Drop(b, frac)
        hasE  == c # <<>> /\ Head(c) \in {"e", "E"}
        esign == IF hasE /\ Len(c) > 1 /\ c[2] \in {"+", "-"} THEN 1 ELSE 0
        edig  == IF hasE THEN PrefixIn(Drop(c, 1 + esign), Digit) ELSE 0
    IN  [sign |-> sign, int |-> int, frac |-> frac,
         exp  |-> IF hasE THEN 1 + esign + edig ELSE 0,
         esign |-> esign,
         bad  |-> int = 0 /\ frac = 0,
         cut  |-> hasE /\ edig = 0]

float_value(i, p) ==
    LET neg   == p.sign = 1 /\ Head(i) = "-"
        idig  == SubSeq(i, p.sign + 1, p.sign + p.int)
        fdig  == IF p.frac = 0 THEN <<>>
                 ELSE SubSeq(i, p.sign + p.int + 2, p.sign + p.int + p.frac)
        c     == Drop(i, p.sign + p.int + p.frac)
        eneg  == p.esign = 1 /\ c[2] = "-"
        edig  == IF p.exp = 0 THEN <<>> ELSE SubSeq(c, 2 + p.esign, p.exp)
        e     == IF eneg THEN 0 - ToNat(edig) ELSE ToNat(edig)
        m     == ToNat(idig \o fdig)
    IN  Normal(IF neg THEN 0 - m ELSE m, e - Len(fdig))

double(i) ==
    LET p == float_parts(i)
        n == p.sign + p.int + p.frac + p.exp
    IN  IF p.bad THEN Error(i, "Float", <<>>)
        ELSE IF p.cut THEN Failure(i, "Float", <<>>)
        ELSE Ok(Drop(i, n), float_value(i, p), <<>>)

----------------------------------------------------------------------------
(* The rules of json.rs *)

quote(i) == tag(<<"\"">>, i)

comma(i) == tag(<<",">>, i)

colon(i) == tag(<<":">>, i)

array_open(i) == tag(<<"[">>, i)

array_close(i) == tag(<<"]">>, i)

object_open(i) == tag(<<"{">>, i)

object_close(i) == tag(<<"}">>, i)

(* the parser that ends a delimited, by name *)
third(name, i) ==
    CASE name = "multispace0"  -> multispace0(i)
      [] name = "quote"        -> quote(i)
      [] name = "array_close"  -> array_close(i)
      [] name = "object_close" -> object_close(i)

(* delimited(first, second, third): r1 is the result of first and r2 that
   of second at the position r1 leaves; third runs at the position r2
   leaves, and a parser after a failed one is not run *)
delimited(r1, r2, name) ==
    IF ~r1.ok THEN r1
    ELSE IF ~r2.ok THEN After(r1.calls, r2)
    ELSE LET r3 == third(name, r2.input) IN
         IF ~r3.ok THEN After(r1.calls \o r2.calls, r3)
         ELSE Ok(r3.input, r2.val, r1.calls \o r2.calls \o r3.calls)

(* separated_pair(first, sep, second): r1, r2 and r3 are their results,
   each at the position the one before leaves *)
separated_pair(r1, r2, r3) ==
    IF ~r1.ok THEN r1
    ELSE IF ~r2.ok THEN After(r1.calls, r2)
    ELSE IF ~r3.ok THEN After(r1.calls \o r2.calls, r3)
    ELSE Ok(r3.input, <<r1.val, r3.val>>, r1.calls \o r2.calls \o r3.calls)

(* insert keeping the value the key already has *)
insert_keep_first(m, k, v) ==
    [x \in DOMAIN m \cup {k} |-> IF x \in DOMAIN m THEN m[x] ELSE v]

(* HashMap::insert: a later value replaces an earlier one under the key *)
insert(m, k, v) == [x \in DOMAIN m \cup {k} |-> IF x = k THEN v ELSE m[x]]

RECURSIVE insert_all(_, _)
insert_all(m, pairs) ==
    IF pairs = <<>> THEN m
    ELSE insert_all(insert(m, Head(pairs)[1], Head(pairs)[2]), Tail(pairs))

(* the closure parse_object maps its pairs with *)
collect(pairs) == insert_all(EmptyMap, pairs)

(* the closures given to map, by name: the HashMap of the pairs, or the
   JsonValue variant of that name *)
closure(f, o) ==
    CASE f = "collect" -> collect(o)
      [] f = "Object"  -> Object(o)
      [] f = "Array"   -> Array(o)
      [] f = "Number"  -> Number(o)
      [] f = "Str"     -> Str(o)
      [] f = "Bool"    -> Bool(o)

(* map(parser, f), r being the result of the parser *)
map(r, f) == IF r.ok THEN [r EXCEPT !.val = closure(f, r.val)] ELSE r

(* parse_string taking a text without the opening quote too *)
parse_string_unopened(i) ==
    LET opening == IF quote(i).ok THEN quote(i) ELSE Ok(i, <<>>, <<>>) IN
    context("string", i,
            delimited(opening, take_till_quote(opening.input), "quote"))

parse_string(i) ==
    LET opening == quote(i) IN
    context("string", i,
            delimited(opening, take_till_quote(opening.input), "quote"))

lit_true(i) == value(TRUE, tag(<<"t", "r", "u", "e">>, i))

lit_false(i) == value(FALSE, tag(<<"f", "a", "l", "s", "e">>, i))

parse_bool(i) ==
    alt(<<"true", "false">>, i, [true |-> lit_true(i), false |-> lit_false(i)])

parse_null(i) == value(Null, tag(<<"n", "u", "l", "l">>, i))

RECURSIVE parse(_)

array_element(i) ==
    LET before == multispace0(i) IN
    delimited(before, parse(before.input), "multispace0")

pair_key(i) ==
    LET before == multispace0(i) IN
    delimited(before, parse_string(before.input), "multispace0")

pair_value(i) ==
    LET before == multispace0(i) IN
    delimited(before, parse(before.input), "multispace0")

parse_pair(i) ==
    LET key == pair_key(i)
        sep == colon(key.input)
    IN  separated_pair(key, sep, pair_value(sep.input))

(* the parser separated_list0 repeats, by name *)
item(f, i) == IF f = "array_element" THEN array_element(i) ELSE parse_pair(i)

(* separated_list0(tag(","), f) after a run of f gave e: i is the position
   after the last item, where the list ends if e is an error, res the items
   so far *)
RECURSIVE separated_list_item(_, _, _, _, _)
RECURSIVE separated_list_sep(_, _, _, _, _)
separated_list_item(f, i, res, calls, e) ==
    IF ~e.ok
    THEN IF e.failure THEN After(calls, e) ELSE Ok(i, res, calls \o e.calls)
    ELSE separated_list_sep(f, e.input, Append(res, e.val),
                            calls \o e.calls, comma(e.input))

(* separated_list0(tag(","), f) after a run of the separator at i gave s *)
separated_list_sep(f, i, res, calls, s) ==
    IF ~s.ok
    THEN IF s.failure THEN After(calls, s) ELSE Ok(i, res, calls \o s.calls)
    ELSE IF Len(s.input) = Len(i)
    THEN Error(s.input, "SeparatedList", calls \o s.calls)
    ELSE separated_list_item(f, i, res, calls \o s.calls, item(f, s.input))

separated_list0(f, i) == separated_list_item(f, i, <<>>, <<>>, item(f, i))

(* array_elements putting each new element in front of the others *)
array_elements_prepend(i) ==
    LET r == separated_list0("array_element", i) IN
    IF r.ok THEN [r EXCEPT !.val = Reverse(r.val)] ELSE r

(* array_elements taking a comma, and the blanks after it, that no element
   follows *)
array_elements_trailing_comma(i) ==
    LET r == separated_list0("array_element", i)
        c == comma(r.input)
    IN  IF r.ok /\ c.ok
        THEN [r EXCEPT !.input = multispace0(c.input).input]
        ELSE r

(* array_elements leaving the position after the blanks it skipped when
   there is no first element *)
array_elements_skip_blanks(i) ==
    LET r == separated_list0("array_element", i) IN
    IF r.ok /\ r.val = <<>>
    THEN [r EXCEPT !.input = multispace0(r.input).input]
    ELSE r

array_elements(i) == separated_list0("array_element", i)

parse_array(i) ==
    LET opening == array_open(i) IN
    Called("parse_array", i,
           context("array", i,
                   delimited(opening, array_elements(opening.input),
                             "array_close")))

object_pairs(i) == map(separated_list0("parse_pair", i), "collect")

parse_object(i) ==
    LET opening == object_open(i) IN
    Called("parse_object", i,
           context("object", i,
                   delimited(opening, object_pairs(opening.input),
                             "object_close")))

AltOrder == <<"object", "array", "number", "string", "bool", "null">>

alternatives(i) ==
    [object |-> map(parse_object(i), "Object"),
     array  |-> map(parse_array(i), "Array"),
     number |-> map(double(i), "Number"),
     string |-> map(parse_string(i), "Str"),
     bool   |-> map(parse_bool(i), "Bool"),
     null   |-> parse_null(i)]

value_alt(order, i) == alt(order, i, alternatives(i))

(* parse_with without the trailing multispace0 *)
parse_with_no_trailing_space(order, i) ==
    LET before == multispace0(i)
        val    == value_alt(order, before.input)
    IN  Called("parse", i,
               context("parse", i,
                       IF val.ok
                       THEN Ok(val.input, val.val, before.calls \o val.calls)
                       ELSE After(before.calls, val)))

(* parse_with without the leading multispace0 *)
parse_with_no_leading_space(order, i) ==
    Called("parse", i,
           context("parse", i,
                   delimited(Ok(i, <<>>, <<>>), value_alt(order, i),
                             "multispace0")))

(* parse with its alternatives tried in the given order *)
parse_with(order, i) ==
    LET before == multispace0(i) IN
    Called("parse", i,
           context("parse", i,
                   delimited(before, value_alt(order, before.input),
                             "multispace0")))

parse(i) == parse_with(AltOrder, i)

----------------------------------------------------------------------------
(* The caller: main.rs reads a text and calls parse on it; the tests of
   json.rs call the other rules.  A state holds the text, the rule called
   on it and what the rule returned.  shape and parts record how the text
   was put together:
     raw       parts = <<s>>                 the text is s
     padded    parts = <<b1, s, b2>>         b1, b2 blank; the text b1 s b2
     array     parts = <<e1, .., en>>        the text [e1,..,en]
     trailing  parts = <<e1, .., en, b>>     b blank; the text [e1,..,en,b]
     object    parts = <<k1, v1, .., kn, vn>> the text {k1:v1,..,kn:vn}
     leaf      parts = <<x, r>>              the text x r                 *)

MaxTokens == 4

MaxAltTokens == 3

MaxPadTokens == 3

MaxBlanks == 1

MaxElems == 3

MaxPairs == 3

MaxStrLen == 2

MaxRestLen == 2

(* the sequences of at most n members of S *)
SeqsUpTo(S, n) == UNION {[1..k -> S] : k \in 0..n}

(* the texts made of at most n of the tokens *)
Texts(tokens, n) == {Concat(ts) : ts \in SeqsUpTo(tokens, n)}

RawToken ==
    {<<"[">>, <<"]">>, <<"{">>, <<"}">>, <<",">>, <<" ">>, <<"\n">>,
     <<"1">>, <<"\"">>, <<"\"", "k", "\"", ":">>, <<"x">>}

AltToken ==
    {<<"[">>, <<"]">>, <<"{", "}">>, <<"-">>, <<"1">>, <<".">>, <<"e">>,
     <<"\"">>, <<" ">>, <<"t", "r", "u", "e">>, <<"f", "a", "l", "s", "e">>,
     <<"n", "u", "l", "l">>}

PadToken == {<<"[">>, <<"]">>, <<",">>, <<" ">>, <<"1">>, <<"\"">>, <<"x">>}

PadBlank == {<<" ">>, <<"\n">>}

(* the element texts of test_array and test_nested *)
ElemNested ==
    <<" ", "[", "2", ",", " ", "[", "3", "]", ",", " ", "t", "r", "u",
    "e", ",", " ", "\"", "[", "n", "o", "t", " ", "a", "n", " ", "a", "r",
    "r", "a", "y", "]", "\"", "]">>

ElemWow ==
    <<" ", " ", "\"", "w", "o", "w", "\"", " ", " ", " ">>

(* value texts, with blanks before and after some of them *)
ElemText ==
    {<<"1">>, <<"2">>, <<"1", "2", "3", ".", "4">>, <<" ", "3", "3", "3">>,
     ElemWow, <<"n", "u", "l", "l", " ", " ">>, ElemNested,
     <<" ", "f", "a", "l", "s", "e">>}

(* key texts: a string with blanks before and after some of them *)
KeyText ==
    {<<"\"", "a", "\"">>, <<" ", "\"", "a", "\"", "\n">>, <<"\"", "b", "\"">>}

ValText ==
    {<<"1">>, <<"2">>, <<" ", "2", " ">>,
     <<"{", "\"", "a", "\"", ":", "1", "}">>}

StrToken == {<<"a">>, <<"\\">>, <<" ">>, <<"[">>}

RestToken == {<<"f">>, <<"\"">>, <<"\\">>, <<" ">>}

Literal ==
    {<<"t", "r", "u", "e">>, <<"f", "a", "l", "s", "e">>,
     <<"n", "u", "l", "l">>}

RECURSIVE Join(_, _)
Join(ss, sep) ==
    IF ss = <<>> THEN <<>>
    ELSE IF Len(ss) = 1 THEN ss[1]
    ELSE ss[1] \o sep \o Join(Tail(ss), sep)

(* <<k1 : v1, .., kn : vn>> from <<k1, v1, .., kn, vn>> *)
PairTexts(ps) == [n \in 1..(Len(ps) \div 2) |-> ps[2 * n - 1] \o <<":">> \o ps[2 * n]]

Render(sh, ps) ==
    CASE sh = "raw"      -> ps[1]
      [] sh = "padded"   -> ps[1] \o ps[2] \o ps[3]
      [] sh = "array"    -> <<"[">> \o Join(ps, <<",">>) \o <<"]">>
      [] sh = "trailing" -> <<"[">> \o Join(Take(ps, Len(ps) - 1), <<",">>)
                                   \o <<",">> \o ps[Len(ps)] \o <<"]">>
      [] sh = "object"   -> <<"{">> \o Join(PairTexts(ps), <<",">>) \o <<"}">>
      [] sh = "leaf"     -> ps[1] \o ps[2]

NoResult == Error(<<>>, "", <<>>)

Start(sh, choices) ==
    /\ shape = sh
    /\ parts \in choices
    /\ input = Render(shape, parts)
    /\ called = "none"
    /\ result = NoResult

Init == Start("raw", {<<s>> : s \in Texts(RawToken, MaxTokens)})

InitAlt == Start("raw", {<<s>> : s \in Texts(AltToken, MaxAltTokens)})

InitPad ==
    Start("padded",
          {<<b1, s, b2>> : b1 \in Texts(PadBlank, MaxBlanks),
                            s \in Texts(PadToken, MaxPadTokens),
                            b2 \in Texts(PadBlank, MaxBlanks)})

InitArray ==
    \/ Start("array", SeqsUpTo(ElemText, MaxElems))
    \/ Start("trailing",
             {es \o <<b>> : es \in SeqsUpTo(ElemText, MaxElems),
                             b \in Texts(PadBlank, MaxBlanks)})

InitObject ==
    Start("object",
          {Concat(ps) : ps \in SeqsUpTo({<<k, v>> : k \in KeyText, v \in ValText},
                                        MaxPairs)})

InitLeaf ==
    Start("leaf",
          {<<x, r>> : x \in Literal \cup {<<"\"">> \o t \o <<"\"">> :
                                            t \in Texts(StrToken, MaxStrLen)},
                      r \in Texts(RestToken, MaxRestLen)})

Call(name, r) ==
    /\ called = "none"
    /\ called' = name
    /\ result' = r
    /\ UNCHANGED <<shape, parts, input>>

CallParse == Call("parse", parse(input))

CallParseArray == Call("parse_array", parse_array(input))

CallParseObject == Call("parse_object", parse_object(input))

CallParseString == Call("parse_string", parse_string(input))

CallParseBool == Call("parse_bool", parse_bool(input))

CallParseNull == Call("parse_null", parse_null(input))

Next ==
    \/ CallParse
    \/ CallParseArray
    \/ CallParseObject
    \/ CallParseString
    \/ CallParseBool
    \/ CallParseNull

Spec == Init /\ [][Next]_vars

SpecAlt == InitAlt /\ [][Next]_vars

SpecPad == InitPad /\ [][Next]_vars

SpecArray == InitArray /\ [][Next]_vars

SpecObject == InitObject /\ [][Next]_vars

SpecLeaf == InitLeaf /\ [][Next]_vars

----------------------------------------------------------------------------
(* Properties *)

(* C1: when parse succeeds the remainder is a suffix of the input and does
   not begin with a blank; what was consumed is blanks, then a text that
   the alternatives accept whole as the returned value, then blanks; and a
   non-blank remainder is returned, not made a failure: parse of "1 x"
   succeeds with the remainder "x". *)
C1_ParseConsumesOneTrimmedValue ==
    /\ (called = "parse" /\ result.ok) =>
         LET rest  == result.input
             n     == Len(input) - Len(rest)
             eaten == Take(input, n)
             lead  == PrefixIn(eaten, Blank)
             trail == PrefixIn(Reverse(eaten), Blank)
             text  == SubSeq(eaten, lead + 1, n - trail)
             alone == value_alt(AltOrder, text)
         IN  /\ n >= 0
             /\ Drop(input, n) = rest
             /\ rest = <<>> \/ Head(rest) \notin Blank
             /\ text # <<>>
             /\ alone.ok /\ alone.input = <<>> /\ alone.val = result.val
    /\ (called = "parse" /\ input = <<"1", " ", "x">>) =>
         result.ok /\ result.input = <<"x">>

C1_Witness ==
    /\ called = "parse"
    /\ input = <<"1", " ", "x">>
    /\ result.ok
    /\ result.input = <<"x">>
    /\ result.val = Number(<<1, 0>>)

(* C2: parse of a text and parse of the same text with blanks put before
   and after it both fail or both succeed with the same value. *)
C2_BlankPaddingKeepsOutcome ==
    (called = "parse" /\ shape = "padded") =>
        LET bare == parse(parts[2]) IN
        /\ result.ok = bare.ok
        /\ result.ok => result.val = bare.val

C2_Witness ==
    /\ called = "parse"
    /\ shape = "padded"
    /\ parts[1] # <<>>
    /\ parts[3] # <<>>
    /\ parts[2] # <<>>
    /\ Head(parts[2]) \notin Blank
    /\ result.ok
    /\ result.input = <<>>

(* C3: parse_array of [e1,..,en], each ei a value text, succeeds with an
   empty remainder and the n values parse returns for e1..en, in that
   order; brackets inside a string element are part of the string. *)
C3_ArrayHoldsElementsInOrder ==
    (called = "parse_array" /\ shape = "array") =>
        /\ result.ok
        /\ result.input = <<>>
        /\ Len(result.val) = Len(parts)
        /\ \A n \in 1..Len(parts) : result.val[n] = parse(parts[n]).val

C3_Witness ==
    /\ called = "parse_array"
    /\ shape = "array"
    /\ parts = <<<<"1">>, ElemNested, <<" ", "f", "a", "l", "s", "e">>>>
    /\ result.ok
    /\ result.input = <<>>
    /\ result.val =
         <<Number(<<1, 0>>),
           Array(<<Number(<<2, 0>>), Array(<<Number(<<3, 0>>)>>), Bool(TRUE),
                   Str(<<"[", "n", "o", "t", " ", "a", "n", " ",
                         "a", "r", "r", "a", "y", "]">>)>>),
           Bool(FALSE)>>

(* C5: parse and parse_array of an array text whose last comma is followed,
   after optional blanks, by the closing bracket return an error, never the
   elements before the comma. *)
C5_TrailingCommaFails ==
    (shape = "trailing" /\ called \in {"parse", "parse_array"}) => ~result.ok

C5_Witness ==
    /\ shape = "trailing"
    /\ called = "parse_array"
    /\ input = <<"[", "1", ",", "2", ",", "]">>
    /\ ~result.ok
    /\ result.input = <<",", "]">>

(* C4: parse_object of {k1:v1,..,kn:vn} returns the mapping whose keys are
   k1..kn without their quotes, each key mapped to the value of the last
   pair that has it; {"a":1,"a":2} gives the one entry a -> Number(2.0) and
   {} the empty mapping. *)
C4_ObjectMapsKeyToLastValue ==
    /\ (called = "parse_object" /\ shape = "object") =>
         LET n       == Len(parts) \div 2
             bare(k) == Drop(k, PrefixIn(k, Blank))
             key(p)  == Take(Tail(bare(parts[2 * p - 1])),
                             PrefixNotIn(Tail(bare(parts[2 * p - 1])), {"\""}))
             val(p)  == parse(parts[2 * p]).val
             last(k) == CHOOSE p \in 1..n :
                            key(p) = k /\ \A q \in (p + 1)..n : key(q) # k
         IN  /\ result.ok
             /\ result.input = <<>>
             /\ DOMAIN result.val = {key(p) : p \in 1..n}
             /\ \A k \in DOMAIN result.val : result.val[k] = val(last(k))
    /\ (called = "parse_object"
          /\ input = <<"{", "\"", "a", "\"", ":", "1", ",",
                       "\"", "a", "\"", ":", "2", "}">>) =>
         result.ok /\ result.val = (<<"a">> :> Number(<<2, 0>>))
    /\ (called = "parse_object" /\ input = <<"{", "}">>) =>
         result.ok /\ DOMAIN result.val = {}

C4_Witness ==
    /\ called = "parse_object"
    /\ shape = "object"
    /\ input = <<"{", "\"", "a", "\"", ":", "1", ",",
                 "\"", "a", "\"", ":", "2", "}">>
    /\ result.ok
    /\ result.val = (<<"a">> :> Number(<<2, 0>>))

(* C7: a leaf rule consumes its lexeme and returns the rest as it is:
   parse_bool of true r and false r returns (r, true) and (r, false),
   parse_null of null r returns (r, Null), and parse_string of "t" r, t
   without a quote, returns (r, t), also when t ends with a backslash. *)
C7_LeafConsumesItsLexemeOnly ==
    shape = "leaf" =>
        LET x == parts[1]
            r == parts[2]
        IN  /\ (called = "parse_bool" /\ x = <<"t", "r", "u", "e">>) =>
                 result.ok /\ result.input = r /\ result.val = TRUE
            /\ (called = "parse_bool" /\ x = <<"f", "a", "l", "s", "e">>) =>
                 result.ok /\ result.input = r /\ result.val = FALSE
            /\ (called = "parse_null" /\ x = <<"n", "u", "l", "l">>) =>
                 result.ok /\ result.input = r /\ result.val = Null
            /\ (called = "parse_string" /\ Head(x) = "\"") =>
                 /\ result.ok
                 /\ result.input = r
                 /\ result.val = SubSeq(x, 2, Len(x) - 1)

C7_Witness ==
    /\ shape = "leaf"
    /\ called = "parse_string"
    /\ parts = <<<<"\"", "a", "\\", "\"">>, <<"\"", "f">>>>
    /\ result.ok
    /\ result.input = <<"\"", "f">>
    /\ result.val = <<"a", "\\">>

(* C10: [] and {} give the empty array and the empty object, and a pair of
   brackets with only blanks between them is rejected by parse_array and
   parse_object (and so by parse), the closing bracket being looked for
   just after the opening one. *)
C10_BlanksAloneBetweenBracketsRejected ==
    LET blanks == SubSeq(input, 2, Len(input) - 1)
        holds(open, close) ==
            /\ Len(input) >= 2
            /\ Head(input) = open
            /\ input[Len(input)] = close
            /\ \A k \in 1..Len(blanks) : blanks[k] \in Blank
    IN  /\ (called = "parse_array" /\ holds("[", "]")) =>
              IF blanks = <<>>
              THEN result.ok /\ result.input = <<>> /\ result.val = <<>>
              ELSE ~result.ok /\ result.input = Tail(input)
                              /\ result.code = "Tag"
        /\ (called = "parse_object" /\ holds("{", "}")) =>
              IF blanks = <<>>
              THEN result.ok /\ result.input = <<>>
                             /\ DOMAIN result.val = {}
              ELSE ~result.ok /\ result.input = Tail(input)
                              /\ result.code = "Tag"
        /\ (called = "parse" /\ (holds("[", "]") \/ holds("{", "}"))) =>
              IF blanks = <<>>
              THEN /\ result.ok
                   /\ result.val.kind =
                        (IF Head(input) = "[" THEN "Array" ELSE "Object")
                   /\ DOMAIN result.val.v = {}
              ELSE ~result.ok

C10_Witness ==
    /\ called = "parse_array"
    /\ input = <<"[", "\n", " ", "]">>
    /\ ~result.ok
    /\ result.input = <<"\n", " ", "]">>

RuleName == {"string", "array", "object", "parse"}

(* C6: when parse fails the error names a grammar rule (string, array,
   object or parse) and the position of the deepest failure; for [1,2,] it
   is rooted at array and points at the trailing comma. *)
C6_ErrorNamesRuleAndDeepestPosition ==
    /\ (called = "parse" /\ ~result.ok) =>
         /\ result.context # <<>>
         /\ \A k \in 1..Len(result.context) : result.context[k] \in RuleName
    /\ (called = "parse" /\ input = <<"[", "1", ",", "2", ",", "]">>) =>
         /\ ~result.ok
         /\ \E k \in 1..Len(result.context) : result.context[k] = "array"
         /\ result.input = <<",", "]">>

(* what the caller sees of a result: success or the kind of failure, and on
   success the remainder and the value *)
Outcome(r) ==
    <<r.ok, r.failure, IF r.ok THEN r.input ELSE <<>>,
      IF r.ok THEN r.val ELSE NoValue>>

AltName == {AltOrder[k] : k \in 1..Len(AltOrder)}

AltOrders == {[k \in 1..Len(AltOrder) |-> AltOrder[p[k]]] :
                 p \in Permutations(1..Len(AltOrder))}

(* the one alternative that the first character c of a value selects, when
   a number begins with a character of numberStart *)
Selected(c, numberStart) ==
    CASE c = "{"           -> "object"
      [] c = "["           -> "array"
      [] c \in numberStart -> "number"
      [] c = "\""          -> "string"
      [] c \in {"t", "f"}  -> "bool"
      [] c = "n"           -> "null"
      [] OTHER             -> "none"

(* on the text i, whose first non-blank character is at j, at most one
   alternative succeeds at j, alt returns the same at j under every order
   of the alternatives, and parse returns what it would with the one
   alternative that the first non-blank character selects *)
DisjointOnFirstCharacter(i, r, numberStart) ==
    LET j  == multispace0(i).input
        rs == alternatives(j)
        a  == IF j = <<>> THEN "none" ELSE Selected(Head(j), numberStart)
        inOrder == Outcome(alt(AltOrder, j, rs))
    IN  /\ Cardinality({b \in AltName : rs[b].ok}) <= 1
        /\ \A order \in AltOrders : Outcome(alt(order, j, rs)) = inOrder
        /\ IF a = "none" THEN ~r.ok
           ELSE Outcome(parse_with(<<a>>, i)) = Outcome(r)

RECURSIVE Shrinking(_)
Shrinking(n) ==
    \A k \in 1..Len(n.sub) :
        /\ IF n.rule = "parse"
           THEN n.sub[k].rule # "parse" /\ n.sub[k].len <= n.len
           ELSE n.sub[k].rule = "parse" /\ n.sub[k].len < n.len
        /\ Shrinking(n.sub[k])

(* the largest number of calls of parse nested in one another at n *)
RECURSIVE ParseDepth(_)
ParseDepth(n) ==
    LET below == {ParseDepth(n.sub[k]) : k \in 1..Len(n.sub)} \cup {0}
    IN  (IF n.rule = "parse" THEN 1 ELSE 0)
          + (CHOOSE d \in below : \A e \in below : e <= d)

Brackets(i) == Cardinality({k \in 1..Len(i) : i[k] \in {"[", "{"}})

(* C9: a call of parse returns, having made progress: a successful parse,
   array element or object pair consumes at least one character, every
   call of parse that parse_array or parse_object makes receives a slice
   strictly shorter than their own, and the calls of parse are nested no
   deeper than the input has opening brackets. *)
C9_RecursionShrinksTheInput ==
    /\ (called = "parse" /\ result.ok) => Len(result.input) < Len(input)
    /\ called = "parse" =>
         \A k \in 0..Len(input) :
            LET s == Drop(input, k)
                e == array_element(s)
                p == parse_pair(s)
            IN  /\ e.ok => Len(e.input) < Len(s)
                /\ p.ok => Len(p.input) < Len(s)
    /\ called \in {"parse", "parse_array", "parse_object"} =>
         /\ Len(result.calls) = 1
         /\ result.calls[1].rule = called
         /\ result.calls[1].len = Len(input)
         /\ Shrinking(result.calls[1])
         /\ ParseDepth(result.calls[1])
              <= Brackets(input) + (IF called = "parse" THEN 1 ELSE 0)

C9_Witness ==
    /\ called = "parse"
    /\ input = <<"[", "[", "]", "]">>
    /\ result.ok
    /\ result.input = <<>>
    /\ ParseDepth(result.calls[1]) = 3
    /\ Brackets(input) = 2

====
